---- MODULE Spec2Model ----
(***************************************************************************)
(* Queue runner and experiment capture pipeline of ugradiolab.             *)
(*                                                                         *)
(* The model follows one call of a queue runner from construction to its   *)
(* return (or to the exception that leaves it).  The three runners of the  *)
(* repository share one loop body:                                         *)
(*   "QueueRunner"     ugradiolab/queue.py      QueueRunner.run            *)
(*   "run.QueueRunner" ugradiolab/run/queue.py  QueueRunner.run            *)
(*   "run_queue"       ugradiolab/experiment.py run_queue                  *)
(* Each loop iteration is cut at the points where wall-clock time passes   *)
(* (time.sleep, input, the device capture) and at the calls of             *)
(* Experiment.run, so that the state between two device commands is        *)
(* visible.  Time is counted in whole seconds.  Queue positions are        *)
(* 1-based: position i is Python's enumerate index i - 1.                  *)
(*                                                                         *)
(* The functions a queue run calls and the analysis functions are          *)
(* specified on their own, each with its own variables:                    *)
(*   SpecCapture   drivers/sdr_utils.py  _capture                          *)
(*   SpecRecord    data/record.py, data/schema.py  save and load           *)
(*   SpecRun       experiment.py  _configure_sdr, capture, build_record    *)
(*   SpecPeaks     analysis/_base.py  find_peaks                           *)
(*   SpecSpectrum  the three spectrum constructors and total_power         *)
(***************************************************************************)
EXTENDS Integers, Sequences, FiniteSets, TLC

\* ------------------------------------------------------------------ bounds
MaxQueue       == 3   \* longest queue handed to a runner
MaxCadence     == 3   \* largest cadence_sec tried
MaxCaptureDur  == 2   \* duration of a slow device capture, in seconds
MaxPromptDelay == 1   \* time a slow operator takes to answer
MaxOversleep   == 1   \* time.sleep may return late by this much
MaxBlocks      == 3   \* largest nblocks asked of a capture
MaxDim         == 2   \* largest nblocks and nsamples of a record's array
MaxBins        == 5   \* most frequency bins of a PSD searched for peaks
MaxPsd         == 2   \* largest PSD value of a bin
MaxDistance    == 3   \* largest min_distance asked of find_peaks

\* Python's None, for the optional numbers (cadence_sec, obs_start, times).
None == -1

VARIABLES
    runner,        \* which of the three runners is executing
    experiments,   \* self.experiments: the queue, a sequence of experiments
    synth,         \* self.synth: "None" or "synth"
    confirm,       \* self.confirm
    cadence_sec,   \* self.cadence_sec: None or a number
    archive,       \* the archive keyword the caller hands to run(), or "None"
    now,           \* wall clock, what time.time() returns
    pc,            \* position of the control flow
    i,             \* loop position (1-based)
    paths,         \* local list `paths`
    obs_start,     \* local `obs_start`: the cadence clock, None or a time
    wait,          \* local `wait`, the argument of the pending time.sleep
    path,          \* local `path` of the running experiment
    rf_on,         \* RF output state of the signal generator
    sdr_conf,      \* position whose SDR parameters the device holds (0: none)
    err,           \* exception that left the runner, "none" if none
    files,         \* capture files written so far
    topAt,         \* history: time at which iteration p was entered
    startAt,       \* history: time at which exp.run of position p was called
    sleepLog,      \* history: time.sleep calls, <<position, seconds>>
    promptLog,     \* history: operator answers, <<position, answer>>
    captureLog,    \* history: device captures, <<position, rf state>>
    pathOf,        \* history: path made by the experiment of position p
    cpc,           \* _capture: position of the control flow
    nblocks,       \* _capture: the nblocks argument
    requests,      \* _capture: block counts asked of the device, in order
    data,          \* _capture: local `data`, what the device delivered
    captured,      \* _capture: the value returned
    rpc,           \* Record.save / Record.load: position of the control flow
    rec,           \* the Record that save is called on (`self`)
    npz,           \* the .npz file that save wrote or that load is given
    loaded,        \* outcome of Record.load: status and the Record returned
    xpc,           \* Experiment.run on a device: position of the control flow
    want,          \* the experiment's direct, center_freq, sample_rate, gain
    sdr,           \* the device: what its getters and sdr.direct report
    cmds,          \* the commands the device has received, in order
    raw_shape,     \* shape of the array the capture delivered
    built,         \* outcome of building the record from that array
    fpc,           \* find_peaks: position of the control flow
    psd,           \* find_peaks: self.psd
    params,        \* find_peaks: min_distance and the threshold computed
    peaks,         \* find_peaks: the bins reported
    spc,           \* spectrum computation: position of the control flow
    impl,          \* which of the three spectrum constructors is used
    samples,       \* rec.data: nblocks blocks of nsamples complex samples
    fft_in,        \* the array handed to np.fft.fft, times nsamples
    spectrum       \* the spectrum computed: its psd

queue_vars == <<runner, experiments, synth, confirm, cadence_sec, archive, now,
                pc, i, paths, obs_start, wait, path, rf_on, sdr_conf, err,
                files, topAt, startAt, sleepLog, promptLog, captureLog, pathOf>>

capture_vars == <<cpc, nblocks, requests, data, captured>>

record_vars == <<rpc, rec, npz, loaded>>

\* What a queue run leaves alone: the state of the capture helper and of the
\* record file functions, which are specified on their own below.
run_vars == <<xpc, want, sdr, cmds, raw_shape, built>>

peaks_vars == <<fpc, psd, params, peaks>>

spectrum_vars == <<spc, impl, samples, fft_in, spectrum>>

other_vars == <<run_vars, peaks_vars, spectrum_vars>>

aside == <<capture_vars, record_vars, other_vars>>

vars == <<queue_vars, capture_vars, record_vars, other_vars>>

\* --------------------------------------------------------------- the inputs
Runners == {"QueueRunner", "run.QueueRunner", "run_queue"}

\* CalExperiment and ObsExperiment, with the dataclass default prefix.
CalExperiment == [kind |-> "cal", prefix |-> "exp"]
ObsExperiment == [kind |-> "obs", prefix |-> "exp"]

Queues == UNION {[1..len -> {CalExperiment, ObsExperiment}] : len \in 0..MaxQueue}

\* cadence_sec: unset, zero, and two settings around the capture durations.
CadenceValues == {None, 0, MaxCadence - 1, MaxCadence}

\* How long the things the runner waits for may take: a capture is quick
\* (done within the clock second it began in) or slow, the operator answers
\* at once or slowly, time.sleep returns on time or late.
CaptureDurations == {0, MaxCaptureDur}
PromptDelays     == {0, MaxPromptDelay}
Oversleeps       == {0, MaxOversleep}

\* What the operator may type at the prompt.
Inputs == {"", "q", " Q", "s", "S "}

NoPath == <<>>

\* ------------------------------------------------------------ pure helpers
\* str.strip().lower() on the answers the operator may type.
strip_lower(resp) ==
    CASE resp = " Q" -> "q"
      [] resp = "S " -> "s"
      [] OTHER       -> resp

\* Python truthiness of cadence_sec: None and 0 are false.
Truthy(x) == x # None /\ x # 0

isinstance_Cal(e) == e.kind = "cal"
isinstance_Obs(e) == e.kind = "obs"

\* exp.counts_for_cadence, the attribute ugradiolab/run/queue.py reads.
counts_for_cadence(e) == e.kind = "obs"

\* The test that decides whether an experiment takes part in cadence timing.
CountsForCadence_All(e) == TRUE
CountsForCadence(e) ==
    IF runner = "run.QueueRunner" THEN counts_for_cadence(e)
                                  ELSE isinstance_Obs(e)

\* The guard of the ValueError of queue.py: a calibration step, no synth.
RequiresSynth_Never(e) == FALSE
RequiresSynth(e) ==
    runner = "QueueRunner" /\ isinstance_Cal(e) /\ synth = "None"

\* wait = cadence_sec - (time.time() - obs_start)
CadenceWait_NoElapsed(t) == cadence_sec
CadenceWait(t) == cadence_sec - (t - obs_start)

\* _make_path: prefix, tag and the clock second of the call.
_make_path(prefix, tag) == <<prefix, tag, now>>

n == Len(experiments)
exp == experiments[i]

\* No Record and no file; a load that has not been made.
NoRecord == [absent |-> TRUE]
NoFile   == [absent |-> TRUE]
NotLoaded == [status |-> "none", record |-> NoRecord]

\* The capture helper and the record functions, not called.
CaptureIdle ==
    /\ cpc = "off"
    /\ nblocks = 0
    /\ requests = <<>>
    /\ data = <<>>
    /\ captured = <<>>

RecordIdle ==
    /\ rpc = "off"
    /\ rec = NoRecord
    /\ npz = NoFile
    /\ loaded = NotLoaded

NotBuilt == [status |-> "none"]

RunIdle ==
    /\ xpc = "off"
    /\ want = <<>>
    /\ sdr = <<>>
    /\ cmds = <<>>
    /\ raw_shape = <<>>
    /\ built = NotBuilt

PeaksIdle ==
    /\ fpc = "off"
    /\ psd = <<>>
    /\ params = <<>>
    /\ peaks = {}

SpectrumIdle ==
    /\ spc = "off"
    /\ impl = "none"
    /\ samples = <<>>
    /\ fft_in = <<>>
    /\ spectrum = <<>>

OtherIdle == RunIdle /\ PeaksIdle /\ SpectrumIdle

\* ------------------------------------------------------------------- Init
Init ==
    /\ CaptureIdle
    /\ RecordIdle
    /\ OtherIdle
    /\ runner \in Runners
    /\ experiments \in Queues
    /\ synth \in {"None", "synth"}
    /\ confirm \in BOOLEAN
    /\ cadence_sec \in CadenceValues
    /\ archive \in {"None", "tar.gz"}
    /\ now = 0
    /\ pc = "call"
    /\ i = 1
    /\ paths = <<>>
    /\ obs_start = None
    /\ wait = 0
    /\ path = NoPath
    /\ rf_on = FALSE
    /\ sdr_conf = 0
    /\ err = "none"
    /\ files = {}
    /\ topAt = [p \in 1..Len(experiments) |-> None]
    /\ startAt = [p \in 1..Len(experiments) |-> None]
    /\ sleepLog = <<>>
    /\ promptLog = <<>>
    /\ captureLog = <<>>
    /\ pathOf = [p \in 1..Len(experiments) |-> NoPath]

config == <<runner, experiments, synth, confirm, cadence_sec, archive>>

\* The call runner.run(...): run takes no parameter besides self
\* (run_queue: none named archive), so a call with archive=... fails to bind
\* its arguments and raises TypeError before the body is entered.
Call ==
    /\ pc = "call"
    /\ IF archive # "None"
       THEN pc' = "raised" /\ err' = "TypeError"
       ELSE pc' = "loop" /\ err' = err
    /\ UNCHANGED <<aside, config, now, i, paths, obs_start, wait, path, rf_on,
                   sdr_conf, files, topAt, startAt, sleepLog, promptLog,
                   captureLog, pathOf>>

\* ---------------------------------------------------------- the runner loop
\* Top of an iteration: the tone-source check of queue.py and the cadence
\* computation, up to the call of time.sleep.
LoopTop_SleepsUnguarded ==
    /\ pc = "loop"
    /\ i <= n
    /\ topAt' = [topAt EXCEPT ![i] = now]
    /\ IF RequiresSynth(exp)
       THEN /\ pc' = "raised"
            /\ err' = "ValueError"
            /\ UNCHANGED <<wait, sleepLog>>
       ELSE /\ err' = err
            /\ IF CountsForCadence(exp) /\ obs_start # None
               THEN /\ wait' = CadenceWait(now)
                    /\ sleepLog' = Append(sleepLog, <<i, CadenceWait(now)>>)
                    /\ pc' = "sleep"
               ELSE /\ pc' = "prompt"
                    /\ UNCHANGED <<wait, sleepLog>>
    /\ UNCHANGED <<aside, config, now, i, paths, obs_start, path, rf_on, sdr_conf,
                   files, startAt, promptLog, captureLog, pathOf>>
LoopTop ==
    /\ pc = "loop"
    /\ i <= n
    /\ topAt' = [topAt EXCEPT ![i] = now]
    /\ IF RequiresSynth(exp)
       THEN /\ pc' = "raised"
            /\ err' = "ValueError"
            /\ UNCHANGED <<wait, sleepLog>>
       ELSE /\ err' = err
            /\ IF Truthy(cadence_sec) /\ CountsForCadence(exp) /\ obs_start # None
                  /\ CadenceWait(now) > 0
               THEN /\ wait' = CadenceWait(now)
                    /\ sleepLog' = Append(sleepLog, <<i, CadenceWait(now)>>)
                    /\ pc' = "sleep"
               ELSE /\ pc' = "prompt"
                    /\ UNCHANGED <<wait, sleepLog>>
    /\ UNCHANGED <<aside, config, now, i, paths, obs_start, path, rf_on, sdr_conf,
                   files, startAt, promptLog, captureLog, pathOf>>

\* time.sleep(wait): returns after at least `wait` seconds.
Sleep_ReturnsAtOnce ==
    /\ pc = "sleep"
    /\ pc' = "prompt"
    /\ UNCHANGED <<aside, config, now, i, paths, obs_start, wait, path, rf_on,
                   sdr_conf, err, files, topAt, startAt, sleepLog, promptLog,
                   captureLog, pathOf>>
Sleep ==
    /\ pc = "sleep"
    /\ \E over \in Oversleeps : now' = now + wait + over
    /\ pc' = "prompt"
    /\ UNCHANGED <<aside, config, i, paths, obs_start, wait, path, rf_on, sdr_conf,
                   err, files, topAt, startAt, sleepLog, promptLog,
                   captureLog, pathOf>>

\* The three ways out of the confirmation prompt.
\* resp == 'q': print 'Queue aborted.' and break; the runner returns paths.
Quit_AsSkip ==
    /\ pc' = "loop"
    /\ i' = i + 1
    /\ obs_start' = obs_start
Quit ==
    /\ pc' = "done"
    /\ UNCHANGED <<i, obs_start>>

\* resp == 's': print 'skipped.' and continue with the next position.
Skip_ResetsClock ==
    /\ pc' = "loop"
    /\ i' = i + 1
    /\ obs_start' = IF CountsForCadence(exp) THEN now' ELSE obs_start
Skip ==
    /\ pc' = "loop"
    /\ i' = i + 1
    /\ obs_start' = obs_start

\* any other answer: fall through to the experiment.
Run ==
    /\ pc' = "start"
    /\ UNCHANGED <<i, obs_start>>

\* print the experiment and, with confirm, ask the operator.
Prompt_AlwaysAsks ==
    /\ pc = "prompt"
    /\ \E raw \in Inputs, d \in PromptDelays :
         LET resp == strip_lower(raw) IN
           /\ now' = now + d
           /\ promptLog' = Append(promptLog, <<i, resp>>)
           /\ IF resp = "q" THEN Quit
              ELSE IF resp = "s" THEN Skip
              ELSE Run
    /\ UNCHANGED <<aside, config, paths, wait, path, rf_on, sdr_conf, err, files,
                   topAt, startAt, sleepLog, captureLog, pathOf>>
Prompt ==
    /\ pc = "prompt"
    /\ IF confirm
       THEN \E raw \in Inputs, d \in PromptDelays :
              LET resp == strip_lower(raw) IN
                /\ now' = now + d
                /\ promptLog' = Append(promptLog, <<i, resp>>)
                /\ IF resp = "q" THEN Quit
                   ELSE IF resp = "s" THEN Skip
                   ELSE Run
       ELSE /\ UNCHANGED <<now, promptLog>>
            /\ Run
    /\ UNCHANGED <<aside, config, paths, wait, path, rf_on, sdr_conf, err, files,
                   topAt, startAt, sleepLog, captureLog, pathOf>>

\* obs_start = time.time() for a cadence-counted experiment, then the call
\* of exp.run, whose first statement is _configure_sdr.
Start ==
    /\ pc = "start"
    /\ obs_start' = IF CountsForCadence(exp) THEN now ELSE obs_start
    /\ startAt' = [startAt EXCEPT ![i] = now]
    /\ sdr_conf' = i
    /\ pc' = IF isinstance_Cal(exp) THEN "set_signal" ELSE "capture"
    /\ UNCHANGED <<aside, config, now, i, paths, wait, path, rf_on, err, files,
                   topAt, sleepLog, promptLog, captureLog, pathOf>>

\* -------------------------------------------------------- Experiment.run
\* CalExperiment.run: set_signal(synth, freq, amp) sets frequency and
\* amplitude and enables the RF output; on synth=None its first statement,
\* synth.set_freq_mhz, raises AttributeError.
SetSignal ==
    /\ pc = "set_signal"
    /\ IF synth = "None"
       THEN /\ pc' = "raised"
            /\ err' = "AttributeError"
            /\ rf_on' = rf_on
       ELSE /\ pc' = "capture"
            /\ err' = err
            /\ rf_on' = TRUE
    /\ UNCHANGED <<aside, config, now, i, paths, obs_start, wait, path, sdr_conf,
                   files, topAt, startAt, sleepLog, promptLog, captureLog,
                   pathOf>>

\* data = _capture(sdr, nsamples, nblocks): takes time, and the device may
\* raise.
Capture ==
    /\ pc = "capture"
    /\ \E d \in CaptureDurations : now' = now + d
    /\ \/ /\ captureLog' = Append(captureLog, <<i, rf_on>>)
          /\ pc' = IF isinstance_Cal(exp) THEN "rf_off" ELSE "make_path"
          /\ err' = err
       \/ /\ pc' = "raised"
          /\ err' = "RuntimeError"
          /\ captureLog' = captureLog
    /\ UNCHANGED <<aside, config, i, paths, obs_start, wait, path, rf_on, sdr_conf,
                   files, topAt, startAt, sleepLog, promptLog, pathOf>>

\* CalExperiment.run: synth.rf_off() after the capture.
RfOff_LeavesOn ==
    /\ pc = "rf_off"
    /\ rf_on' = rf_on
    /\ pc' = "make_path"
    /\ UNCHANGED <<aside, config, now, i, paths, obs_start, wait, path, sdr_conf,
                   err, files, topAt, startAt, sleepLog, promptLog,
                   captureLog, pathOf>>
RfOff ==
    /\ pc = "rf_off"
    /\ rf_on' = FALSE
    /\ pc' = "make_path"
    /\ UNCHANGED <<aside, config, now, i, paths, obs_start, wait, path, sdr_conf,
                   err, files, topAt, startAt, sleepLog, promptLog,
                   captureLog, pathOf>>

\* path = _make_path(self.outdir, self.prefix, 'cal' or 'obs')
MakePath ==
    /\ pc = "make_path"
    /\ path' = _make_path(exp.prefix, exp.kind)
    /\ pathOf' = [pathOf EXCEPT ![i] = path']
    /\ pc' = "save"
    /\ UNCHANGED <<aside, config, now, i, paths, obs_start, wait, rf_on, sdr_conf,
                   err, files, topAt, startAt, sleepLog, promptLog,
                   captureLog>>

\* build_record(..., synth=s): the tone triple is queried from the tone
\* source when one is passed, and left None otherwise.
build_record(s) ==
    IF s # "None"
    THEN [siggen_freq  |-> "queried",
          siggen_amp   |-> "queried",
          siggen_rf_on |-> IF rf_on THEN "True" ELSE "False"]
    ELSE [siggen_freq |-> "None", siggen_amp |-> "None",
          siggen_rf_on |-> "None"]

\* The synth argument save_cal and save_obs hand to build_record.
save_cal_synth == synth
save_obs_synth_Passes == synth
save_obs_synth == "None"

\* save_cal / save_obs: build_record (which may reject the data with a
\* ValueError and, for a calibration, queries the synth) and save_record
\* (np.savez, which may fail with an OSError and replaces a file of the same
\* name).
Save_WritesBeforeBuild ==
    /\ pc = "save"
    /\ LET record == build_record(IF isinstance_Cal(exp)
                                    THEN save_cal_synth
                                    ELSE save_obs_synth)
       IN  files' = {f \in files : f.path # path} \cup
                    {[path |-> path, pos |-> i,
                      siggen_freq  |-> record.siggen_freq,
                      siggen_amp   |-> record.siggen_amp,
                      siggen_rf_on |-> record.siggen_rf_on]}
    /\ \/ /\ pc' = "append"
          /\ err' = err
       \/ /\ pc' = "raised"
          /\ err' \in {"ValueError", "OSError"}
    /\ UNCHANGED <<aside, config, now, i, paths, obs_start, wait, path, rf_on,
                   sdr_conf, topAt, startAt, sleepLog, promptLog, captureLog,
                   pathOf>>
Save ==
    /\ pc = "save"
    /\ \/ /\ LET record == build_record(IF isinstance_Cal(exp)
                                          THEN save_cal_synth
                                          ELSE save_obs_synth)
             IN  files' = {f \in files : f.path # path} \cup
                          {[path |-> path, pos |-> i,
                            siggen_freq  |-> record.siggen_freq,
                            siggen_amp   |-> record.siggen_amp,
                            siggen_rf_on |-> record.siggen_rf_on]}
          /\ pc' = "append"
          /\ err' = err
       \/ /\ pc' = "raised"
          /\ err' \in {"ValueError", "OSError"}
          /\ files' = files
    /\ UNCHANGED <<aside, config, now, i, paths, obs_start, wait, path, rf_on,
                   sdr_conf, topAt, startAt, sleepLog, promptLog, captureLog,
                   pathOf>>

\* back in the runner: paths.append(path), next position.
AppendPath_Prepend ==
    /\ pc = "append"
    /\ paths' = <<path>> \o paths
    /\ i' = i + 1
    /\ pc' = "loop"
    /\ UNCHANGED <<aside, config, now, obs_start, wait, path, rf_on, sdr_conf, err,
                   files, topAt, startAt, sleepLog, promptLog, captureLog,
                   pathOf>>
AppendPath_ResetsClock ==
    /\ pc = "append"
    /\ paths' = Append(paths, path)
    /\ i' = i + 1
    /\ pc' = "loop"
    /\ obs_start' = IF CountsForCadence(exp) THEN now ELSE obs_start
    /\ UNCHANGED <<aside, config, now, wait, path, rf_on, sdr_conf, err,
                   files, topAt, startAt, sleepLog, promptLog, captureLog,
                   pathOf>>
AppendPath ==
    /\ pc = "append"
    /\ paths' = Append(paths, path)
    /\ i' = i + 1
    /\ pc' = "loop"
    /\ UNCHANGED <<aside, config, now, obs_start, wait, path, rf_on, sdr_conf, err,
                   files, topAt, startAt, sleepLog, promptLog, captureLog,
                   pathOf>>

\* the for loop is exhausted: return paths.
Return ==
    /\ pc = "loop"
    /\ i > n
    /\ pc' = "done"
    /\ UNCHANGED <<aside, config, now, i, paths, obs_start, wait, path, rf_on,
                   sdr_conf, err, files, topAt, startAt, sleepLog, promptLog,
                   captureLog, pathOf>>

Next ==
    \/ Call
    \/ LoopTop
    \/ Sleep
    \/ Prompt
    \/ Start
    \/ SetSignal
    \/ Capture
    \/ RfOff
    \/ MakePath
    \/ Save
    \/ AppendPath
    \/ Return

Spec == Init /\ [][Next]_vars

\* No queue run in progress: the state the runner's variables keep while the
\* capture helper or the record functions are specified on their own.
QueueIdle ==
    /\ runner = "QueueRunner"
    /\ experiments = <<>>
    /\ synth = "None"
    /\ confirm = FALSE
    /\ cadence_sec = None
    /\ archive = "None"
    /\ now = 0
    /\ pc = "off"
    /\ i = 1
    /\ paths = <<>>
    /\ obs_start = None
    /\ wait = 0
    /\ path = NoPath
    /\ rf_on = FALSE
    /\ sdr_conf = 0
    /\ err = "none"
    /\ files = {}
    /\ topAt = <<>>
    /\ startAt = <<>>
    /\ sleepLog = <<>>
    /\ promptLog = <<>>
    /\ captureLog = <<>>
    /\ pathOf = <<>>

\* ----------------------------------------------- _capture (sdr_utils.py)
\* A delivered block: the device numbers the blocks of one delivery from 1;
\* a block holds stale ring-buffer samples or one of two fresh contents.
BlockContents == {"stale", "sky", "tone"}
Deliveries(count) ==
    {[k \in 1..count |-> [seq |-> k, content |-> c[k]]] :
        c \in [1..count -> BlockContents]}

\* nblocks=nblocks + 1
_capture_request(nb) == nb + 1

\* data[1:]
_capture_result_DropsLast(d) == SubSeq(d, 1, Len(d) - 1)
_capture_result(d) == SubSeq(d, 2, Len(d))

CaptureInit ==
    /\ QueueIdle
    /\ RecordIdle
    /\ OtherIdle
    /\ cpc = "capture_data"
    /\ nblocks \in 1..MaxBlocks
    /\ requests = <<>>
    /\ data = <<>>
    /\ captured = <<>>

\* data = sdr.capture_data(nsamples=nsamples, nblocks=nblocks + 1)
CaptureData ==
    /\ cpc = "capture_data"
    /\ requests' = Append(requests, _capture_request(nblocks))
    /\ data' \in Deliveries(_capture_request(nblocks))
    /\ cpc' = "return"
    /\ UNCHANGED <<queue_vars, record_vars, other_vars, nblocks, captured>>

\* return data[1:]
CaptureReturn ==
    /\ cpc = "return"
    /\ captured' = _capture_result(data)
    /\ cpc' = "returned"
    /\ UNCHANGED <<queue_vars, record_vars, other_vars, nblocks, requests, data>>

CaptureNext ==
    \/ CaptureData
    \/ CaptureReturn

SpecCapture == CaptureInit /\ [][CaptureNext]_vars

\* ------------------------------------- Record.save / Record.load (record.py)
\* A Record (the dataclass) is modelled as
\*   [data |-> [shape |-> <<nblocks, nsamples>>, iq |-> samples in C order,
\*                 each <<real, imag>>],
\*    floats |-> the float fields by name, direct, nblocks, nsamples,
\*    siggen_freq, siggen_amp, siggen_rf_on]
\* and a .npz file as
\*   [keys |-> the names stored, data |-> [shape, dtype, flat |-> the
\*    elements in C order], floats, direct, nblocks, nsamples, siggen_*]
\* where the value kept under a name outside keys is never read.

_REQUIRED_KEYS_NoGain ==
    {"data", "sample_rate", "center_freq", "direct",
     "unix_time", "jd", "lst", "alt", "az",
     "observer_lat", "observer_lon", "observer_alt",
     "nblocks", "nsamples"}
_REQUIRED_KEYS ==
    {"data", "sample_rate", "center_freq", "gain", "direct",
     "unix_time", "jd", "lst", "alt", "az",
     "observer_lat", "observer_lon", "observer_alt",
     "nblocks", "nsamples"}

SiggenKeys == {"siggen_freq", "siggen_amp", "siggen_rf_on"}

\* The float fields of the dataclass, in declaration order, and all of the
\* fields that have no default.
FloatFields ==
    <<"sample_rate", "center_freq", "gain", "unix_time", "jd", "lst", "alt",
      "az", "observer_lat", "observer_lon", "observer_alt">>
FloatKeys == {FloatFields[j] : j \in 1..Len(FloatFields)}
RecordFields == {"data", "direct", "nblocks", "nsamples"} \cup FloatKeys

\* uses_synth: all three signal generator fields are populated.
uses_synth(self) ==
    /\ self.siggen_freq # None
    /\ self.siggen_amp # None
    /\ self.siggen_rf_on # "None"

\* astype(np.int8) of a sample component.  A value that int8 holds is kept;
\* for one outside the int8 range the conversion from float is not defined
\* by numpy: the build either wraps it or saturates it.
Casts == {"wrap", "saturate"}
astype_int8(x, cast) ==
    IF x \in -128..127 THEN x
    ELSE IF cast = "wrap" THEN ((x + 128) % 256) - 128
    ELSE IF x > 127 THEN 127 ELSE -128

\* np.stack([real, imag], axis=-1) in C order: real and imag interleaved.
stack_ImagFirst(re, im) ==
    [k \in 1..(2 * Len(re)) |->
        IF k % 2 = 1 THEN im[(k + 1) \div 2] ELSE re[k \div 2]]
stack(re, im) ==
    [k \in 1..(2 * Len(re)) |->
        IF k % 2 = 1 THEN re[(k + 1) \div 2] ELSE im[k \div 2]]

\* Record._to_npz_dict: the int8 I/Q array, every required field under its
\* own name, and the signal generator triple only if uses_synth.
_to_npz_dict(self, cast) ==
    [keys   |-> _REQUIRED_KEYS \cup
                (IF uses_synth(self) THEN SiggenKeys ELSE {}),
     data   |-> [shape |-> self.data.shape \o <<2>>,
                 dtype |-> "int8",
                 flat  |-> stack(
                     [k \in 1..Len(self.data.iq) |->
                         astype_int8(self.data.iq[k][1], cast)],
                     [k \in 1..Len(self.data.iq) |->
                         astype_int8(self.data.iq[k][2], cast)])],
     floats |-> [k \in FloatKeys |-> self.floats[k]],
     direct |-> self.direct,
     nblocks  |-> self.nblocks,
     nsamples |-> self.nsamples,
     siggen_freq  |-> IF uses_synth(self) THEN self.siggen_freq ELSE None,
     siggen_amp   |-> IF uses_synth(self) THEN self.siggen_amp ELSE None,
     siggen_rf_on |-> IF uses_synth(self) THEN self.siggen_rf_on ELSE "None"]

\* CaptureRecord.to_npz_dict (schema.py): the array as int8 (for a
\* CaptureRecord the raw array, whose last axis holds the pairs of
\* self.data.iq), every required field under its own name, and each signal
\* generator field that is not None under its own name.
to_npz_dict(self, cast) ==
    [keys   |-> _REQUIRED_KEYS \cup
                (IF self.siggen_freq # None THEN {"siggen_freq"} ELSE {}) \cup
                (IF self.siggen_amp # None THEN {"siggen_amp"} ELSE {}) \cup
                (IF self.siggen_rf_on # "None" THEN {"siggen_rf_on"} ELSE {}),
     data   |-> [shape |-> self.data.shape \o <<2>>,
                 dtype |-> "int8",
                 flat  |-> [k \in 1..(2 * Len(self.data.iq)) |->
                     astype_int8(self.data.iq[(k + 1) \div 2][2 - (k % 2)],
                                 cast)]],
     floats |-> [k \in FloatKeys |-> self.floats[k]],
     direct |-> self.direct,
     nblocks  |-> self.nblocks,
     nsamples |-> self.nsamples,
     siggen_freq  |-> self.siggen_freq,
     siggen_amp   |-> self.siggen_amp,
     siggen_rf_on |-> self.siggen_rf_on]

\* The three checks Record.load makes of the stored array.
HasIQLayout(raw) == Len(raw.shape) = 3 /\ raw.shape[3] = 2
IsInt8(raw) == raw.dtype = "int8"
DimsMatch_Unchecked(raw, nb, ns) == TRUE
DimsMatch(raw, nb, ns) == <<raw.shape[1], raw.shape[2]>> = <<nb, ns>>

Rejected(error) == [status |-> error, record |-> NoRecord]

\* Record.load: the missing-keys check, the reads of data, nblocks and
\* nsamples, the three array checks, then the Record built from the stored
\* values, each signal generator field from its own key if that key is
\* stored.  Reading a name that is not stored raises KeyError.
load(f) ==
    IF _REQUIRED_KEYS \ f.keys # {} THEN Rejected("ValueError")
    ELSE IF ~({"data", "nblocks", "nsamples"} \subseteq f.keys)
         THEN Rejected("KeyError")
    ELSE IF ~HasIQLayout(f.data) THEN Rejected("ValueError")
    ELSE IF ~IsInt8(f.data) THEN Rejected("ValueError")
    ELSE IF ~DimsMatch(f.data, f.nblocks, f.nsamples)
         THEN Rejected("ValueError")
    ELSE IF ~((FloatKeys \cup {"direct"}) \subseteq f.keys)
         THEN Rejected("KeyError")
    ELSE [status |-> "ok",
          record |->
            [data   |-> [shape |-> <<f.data.shape[1], f.data.shape[2]>>,
                         iq |-> [k \in 1..(Len(f.data.flat) \div 2) |->
                                    <<f.data.flat[2 * k - 1],
                                      f.data.flat[2 * k]>>]],
             floats |-> [k \in FloatKeys |-> f.floats[k]],
             direct |-> f.direct,
             nblocks  |-> f.nblocks,
             nsamples |-> f.nsamples,
             siggen_freq  |-> IF "siggen_freq" \in f.keys
                              THEN f.siggen_freq ELSE None,
             siggen_amp   |-> IF "siggen_amp" \in f.keys
                              THEN f.siggen_amp ELSE None,
             siggen_rf_on |-> IF "siggen_rf_on" \in f.keys
                              THEN f.siggen_rf_on ELSE "None"]]

\* ---- the inputs
\* Sample values <<real, imag>>: the int8 extremes, a small value, and one
\* that int8 does not hold.
IQValues == {<<-128, 127>>, <<0, -2>>, <<128, 0>>}

\* Arrays of every shape up to MaxDim x MaxDim, the first sample chosen
\* apart from the others.
SampleArrays ==
    {[shape |-> <<b, s>>,
      iq |-> [k \in 1..(b * s) |-> IF k = 1 THEN first ELSE rest]] :
        b \in 1..MaxDim, s \in 1..MaxDim, first \in IQValues, rest \in IQValues}

\* Float fields: every field a value of its own, from two settings.
FloatSettings ==
    {[k \in FloatKeys |->
        base + CHOOSE j \in 1..Len(FloatFields) : FloatFields[j] = k] :
        base \in {100, 200}}

\* Records as from_sdr builds them (nblocks and nsamples taken from the
\* array) and as the dataclass constructor admits them: samples in or out
\* of the int8 range, any of the signal generator fields set or None.
Records ==
    {[data |-> a, floats |-> fl, direct |-> dr,
      nblocks |-> a.shape[1], nsamples |-> a.shape[2],
      siggen_freq |-> sf, siggen_amp |-> sa, siggen_rf_on |-> so] :
        a \in SampleArrays, fl \in FloatSettings, dr \in BOOLEAN,
        sf \in {None, 1420}, sa \in {None, -35},
        so \in {"None", "True", "False"}}

\* Stored arrays of two or three dimensions, of three dtypes, all zero.
RawShapes ==
    {<<b, s>> : b \in 1..MaxDim, s \in 1..MaxDim} \cup
    {<<b, s, c>> : b \in 1..MaxDim, s \in 1..MaxDim, c \in 1..3}
Dtypes == {"int8", "int16", "float32"}
RECURSIVE Product(_)
Product(shape) ==
    IF shape = <<>> THEN 1 ELSE Head(shape) * Product(Tail(shape))

\* Files as any writer may have left them: at most one field's name
\* missing, any of the signal generator names stored, the array of any
\* shape and dtype, nblocks and nsamples as the array has them or one more.
Files ==
    {[keys   |-> (RecordFields \ drop) \cup opt,
      data   |-> [shape |-> sh, dtype |-> dt,
                  flat |-> [k \in 1..Product(sh) |-> 0]],
      floats |-> [k \in FloatKeys |->
                     100 + CHOOSE j \in 1..Len(FloatFields) : FloatFields[j] = k],
      direct |-> FALSE,
      nblocks  |-> sh[1] + db,
      nsamples |-> sh[2] + ds,
      siggen_freq  |-> IF "siggen_freq" \in opt THEN 1420 ELSE None,
      siggen_amp   |-> IF "siggen_amp" \in opt THEN -35 ELSE None,
      siggen_rf_on |-> IF "siggen_rf_on" \in opt THEN "True" ELSE "None"] :
        drop \in {{}} \cup {{k} : k \in RecordFields},
        opt \in SUBSET SiggenKeys,
        sh \in RawShapes, dt \in Dtypes, db \in {0, 1}, ds \in {0, 1}}

\* Either a Record to be saved and loaded back, or a file to be loaded.
RecordInit ==
    /\ QueueIdle
    /\ CaptureIdle
    /\ OtherIdle
    /\ loaded = NotLoaded
    /\ \/ rpc = "save" /\ rec \in Records /\ npz = NoFile
       \/ rpc = "load" /\ rec = NoRecord /\ npz \in Files

\* Record.save: np.savez of _to_npz_dict.
RecordSave ==
    /\ rpc = "save"
    /\ \E cast \in Casts : npz' = _to_npz_dict(rec, cast)
    /\ rpc' = "load"
    /\ UNCHANGED <<queue_vars, capture_vars, other_vars, rec, loaded>>

\* save_record (schema.py): np.savez of CaptureRecord.to_npz_dict.
save_record ==
    /\ rpc = "save"
    /\ \E cast \in Casts : npz' = to_npz_dict(rec, cast)
    /\ rpc' = "written"
    /\ UNCHANGED <<queue_vars, capture_vars, other_vars, rec, loaded>>

\* Record.load of the file.
RecordLoad ==
    /\ rpc = "load"
    /\ loaded' = load(npz)
    /\ rpc' = "done"
    /\ UNCHANGED <<queue_vars, capture_vars, other_vars, rec, npz>>

RecordNext ==
    \/ RecordSave
    \/ save_record
    \/ RecordLoad

SpecRecord == RecordInit /\ [][RecordNext]_vars

\* ------------------------------- Experiment.run on a device (experiment.py)
\* The experiment's SDR parameters; the numbers stand for two settings each.
Wants ==
    [direct : BOOLEAN, center_freq : {1420, 1421}, sample_rate : {2, 3},
     gain : {0, 10}]

\* The arguments _configure_sdr passes.
direct_sampling_arg(w) == IF w.direct THEN "q" ELSE "0"
center_freq_arg_AlwaysExperiment(w) == w.center_freq
center_freq_arg(w) == IF w.direct THEN 0 ELSE w.center_freq

\* What the device holds after it was told a value: the value, or the
\* nearest one it supports.
Reported(v) == {v, v + 1}

\* A device as an earlier experiment of the queue left it.
Devices ==
    {[direct_sampling |-> direct_sampling_arg(w),
      center_freq |-> center_freq_arg(w),
      sample_rate |-> w.sample_rate,
      gain |-> w.gain,
      direct |-> w.direct] : w \in Wants}

\* Shapes of the array a capture may deliver: the I/Q layout, and arrays of
\* one, two and four dimensions and with three channels.
RawShapes_Delivered ==
    {<<2, 3, 2>>, <<3>>, <<2, 3>>, <<2, 3, 3>>, <<2, 3, 2, 2>>}

\* sdr.get_sample_rate(), sdr.get_center_freq(), sdr.get_gain()
get_sample_rate_Requested(dev) == want.sample_rate
get_sample_rate(dev) == dev.sample_rate
get_center_freq(dev) == dev.center_freq
get_gain(dev) == dev.gain

NoRecordBuilt(builder) ==
    [status |-> "ValueError", builder |-> builder]

\* The fields both builders take from the device and from the array.
record_kwargs(builder, shape, dev) ==
    [status |-> "ok", builder |-> builder,
     sample_rate |-> get_sample_rate(dev),
     center_freq |-> get_center_freq(dev),
     gain |-> get_gain(dev),
     direct |-> dev.direct,
     nblocks |-> shape[1],
     nsamples |-> shape[2]]

\* build_record (schema.py): rejects an array of fewer than 2 dimensions.
build_record_from(shape, dev) ==
    IF Len(shape) < 2 THEN NoRecordBuilt("build_record")
    ELSE record_kwargs("build_record", shape, dev)

\* Record.from_sdr (record.py): rejects an array that is not 3-dimensional
\* with a last dimension of 2.
from_sdr(shape, dev) ==
    IF Len(shape) # 3 \/ shape[Len(shape)] # 2
    THEN NoRecordBuilt("Record.from_sdr")
    ELSE record_kwargs("Record.from_sdr", shape, dev)

RunInit ==
    /\ QueueIdle
    /\ CaptureIdle
    /\ RecordIdle
    /\ PeaksIdle
    /\ SpectrumIdle
    /\ xpc = "set_direct_sampling"
    /\ want \in Wants
    /\ sdr \in Devices
    /\ cmds = <<>>
    /\ raw_shape = <<>>
    /\ built = NotBuilt

run_rest == <<queue_vars, capture_vars, record_vars, peaks_vars, spectrum_vars>>

\* sdr.set_direct_sampling('q') or sdr.set_direct_sampling(0)
SetDirectSampling ==
    /\ xpc = "set_direct_sampling"
    /\ sdr' = [sdr EXCEPT !.direct_sampling = direct_sampling_arg(want)]
    /\ cmds' = Append(cmds, <<"set_direct_sampling", direct_sampling_arg(want)>>)
    /\ xpc' = "set_center_freq"
    /\ UNCHANGED <<run_rest, want, raw_shape, built>>

\* sdr.set_center_freq(0) or sdr.set_center_freq(self.center_freq)
SetCenterFreq ==
    /\ xpc = "set_center_freq"
    /\ \E actual \in Reported(center_freq_arg(want)) :
           sdr' = [sdr EXCEPT !.center_freq = actual]
    /\ cmds' = Append(cmds, <<"set_center_freq", center_freq_arg(want)>>)
    /\ xpc' = "direct"
    /\ UNCHANGED <<run_rest, want, raw_shape, built>>

\* sdr.direct = self.direct
SetDirect ==
    /\ xpc = "direct"
    /\ sdr' = [sdr EXCEPT !.direct = want.direct]
    /\ xpc' = "set_sample_rate"
    /\ UNCHANGED <<run_rest, want, cmds, raw_shape, built>>

\* sdr.set_sample_rate(self.sample_rate)
SetSampleRate ==
    /\ xpc = "set_sample_rate"
    /\ \E actual \in Reported(want.sample_rate) :
           sdr' = [sdr EXCEPT !.sample_rate = actual]
    /\ cmds' = Append(cmds, <<"set_sample_rate", want.sample_rate>>)
    /\ xpc' = "set_gain"
    /\ UNCHANGED <<run_rest, want, raw_shape, built>>

\* sdr.set_gain(self.gain)
SetGain ==
    /\ xpc = "set_gain"
    /\ \E actual \in Reported(want.gain) :
           sdr' = [sdr EXCEPT !.gain = actual]
    /\ cmds' = Append(cmds, <<"set_gain", want.gain>>)
    /\ xpc' = "capture"
    /\ UNCHANGED <<run_rest, want, raw_shape, built>>

\* data = _capture(sdr, self.nsamples, self.nblocks)
RunCapture ==
    /\ xpc = "capture"
    /\ cmds' = Append(cmds, <<"capture_data", "nblocks + 1">>)
    /\ raw_shape' \in RawShapes_Delivered
    /\ xpc' = "build"
    /\ UNCHANGED <<run_rest, want, sdr, built>>

\* The record is built from the array and the device, by build_record
\* (save_cal, save_obs) or by Record.from_sdr.
BuildRecord ==
    /\ xpc = "build"
    /\ built' \in {build_record_from(raw_shape, sdr), from_sdr(raw_shape, sdr)}
    /\ xpc' = "built"
    /\ UNCHANGED <<run_rest, want, sdr, cmds, raw_shape>>

RunNext ==
    \/ SetDirectSampling
    \/ SetCenterFreq
    \/ SetDirect
    \/ SetSampleRate
    \/ SetGain
    \/ RunCapture
    \/ BuildRecord

SpecRun == RunInit /\ [][RunNext]_vars

\* ------------------------------------------ find_peaks (analysis/_base.py)
\* The PSD is a sequence of whole numbers, bin m of the model being index
\* m - 1 of the code.  The median may fall between two whole numbers, so the
\* noise level and the threshold are kept as twice their value.

\* Twice np.median(self.psd).
KthSmallest(x, k) ==
    CHOOSE v \in {x[j] : j \in 1..Len(x)} :
        /\ Cardinality({j \in 1..Len(x) : x[j] < v}) < k
        /\ k <= Cardinality({j \in 1..Len(x) : x[j] <= v})
median2(x) ==
    IF Len(x) % 2 = 1 THEN 2 * KthSmallest(x, (Len(x) + 1) \div 2)
    ELSE KthSmallest(x, Len(x) \div 2) + KthSmallest(x, Len(x) \div 2 + 1)

\* What a comparison with nan is: false.
nan == -2
AtLeast(v2, min2) == min2 # nan /\ v2 >= min2

\* Twice _gamma.ppf(1 - p_per_bin, a=nblocks, scale=noise_mean / nblocks):
\* nan when the scale is 0, else a value above the mean of the
\* distribution, noise_mean, by an amount that p_per_bin and nblocks set.
Excesses == {1, 2, 3}
threshold2(x, excess) ==
    IF median2(x) = 0 THEN nan ELSE median2(x) + excess

\* scipy.signal.find_peaks, step 1: the local maxima.  A bin higher than
\* both neighbours, or the middle (rounded down) of a run of equal bins
\* higher than the bins on both sides; the first and the last bin never.
LocalMaxima(x) ==
    {m \in 2..(Len(x) - 1) :
        \E l \in 2..m, r \in m..(Len(x) - 1) :
            /\ \A j \in l..r : x[j] = x[m]
            /\ x[l - 1] < x[m]
            /\ x[r + 1] < x[m]
            /\ m = (l + r) \div 2}

\* step 2, height=threshold: the peaks at or above it.
ByHeight(x, P, height2) == {m \in P : AtLeast(2 * x[m], height2)}

\* step 3, distance=min_distance: in the order of their height, highest
\* first, each peak still kept removes the peaks nearer than the distance.
\* The order among peaks of equal height is that of the sort, `tie`.
Highest(x, P, tie) ==
    CHOOSE m \in P : \A q \in P :
        \/ x[q] < x[m]
        \/ x[q] = x[m] /\ (IF tie = "right" THEN q <= m ELSE q >= m)
RECURSIVE SelectByDistance(_, _, _, _)
SelectByDistance_KeepsAll(x, P, distance, tie) == P
SelectByDistance(x, P, distance, tie) ==
    IF P = {} THEN {}
    ELSE LET m == Highest(x, P, tie)
         IN  {m} \cup SelectByDistance(
                 x, {q \in P : q - m >= distance \/ m - q >= distance},
                 distance, tie)

\* step 4, prominence=threshold - noise_mean: the height of a peak above
\* the higher of the lowest bins between it and the next higher bin (or
\* the end) on either side.
SeqMin(x, lo, hi) ==
    CHOOSE v \in {x[j] : j \in lo..hi} : \A j \in lo..hi : v <= x[j]
Prominence(x, m) ==
    LET lo == CHOOSE l \in 1..m :
                  /\ \A j \in l..m : x[j] <= x[m]
                  /\ (l = 1 \/ x[l - 1] > x[m])
        hi == CHOOSE r \in m..Len(x) :
                  /\ \A j \in m..r : x[j] <= x[m]
                  /\ (r = Len(x) \/ x[r + 1] > x[m])
        left_min  == SeqMin(x, lo, m)
        right_min == SeqMin(x, m, hi)
    IN  x[m] - (IF left_min > right_min THEN left_min ELSE right_min)
ByProminence(x, P, prominence2) ==
    {m \in P : AtLeast(2 * Prominence(x, m), prominence2)}

\* _find_peaks(self.psd, height=threshold,
\*             prominence=threshold - noise_mean, distance=min_distance)
_find_peaks(x, height2, prominence2, distance, tie) ==
    ByProminence(x,
        SelectByDistance(x, ByHeight(x, LocalMaxima(x), height2),
                         distance, tie),
        prominence2)

PSDs == UNION {[1..len -> 0..MaxPsd] : len \in 3..MaxBins}

PeaksInit ==
    /\ QueueIdle
    /\ CaptureIdle
    /\ RecordIdle
    /\ RunIdle
    /\ SpectrumIdle
    /\ fpc = "threshold"
    /\ psd \in PSDs
    /\ params \in [min_distance : 1..MaxDistance, excess : Excesses,
                   threshold : {nan}]
    /\ peaks = {}

peaks_rest == <<queue_vars, capture_vars, record_vars, run_vars, spectrum_vars>>

\* noise_mean, p_per_bin and threshold.
Threshold ==
    /\ fpc = "threshold"
    /\ params' = [params EXCEPT !.threshold = threshold2(psd, params.excess)]
    /\ fpc' = "find_peaks"
    /\ UNCHANGED <<peaks_rest, psd, peaks>>

\* The call of _find_peaks; peak_idx is what find_peaks reports.
FindPeaks ==
    /\ fpc = "find_peaks"
    /\ \E tie \in {"left", "right"} :
           peaks' = _find_peaks(
               psd, params.threshold,
               IF params.threshold = nan THEN nan
               ELSE params.threshold - median2(psd),
               params.min_distance, tie)
    /\ fpc' = "done"
    /\ UNCHANGED <<peaks_rest, psd, params>>

PeaksNext ==
    \/ Threshold
    \/ FindPeaks

SpecPeaks == PeaksInit /\ [][PeaksNext]_vars

\* ----------------------- Spectrum.from_record, Spectrum.from_data,
\* ----------------------- SpectrumLite.from_data and total_power
\* A complex number is <<real, imag>> with whole parts.  The transform
\* sizes are 2 and 4, whose roots of unity are powers of i, so that the FFT
\* is exact.  Divisions are kept exact by carrying denominators: fft_in is
\* nsamples times the array of the code, and the psd is a sequence of
\* numerators over the one denominator spectrum.den.
FftSizes == {2, 4}
Amplitudes == {<<3, 0>>, <<0, -2>>, <<1, 1>>}
Constructors ==
    {"Spectrum.from_record", "Spectrum.from_data", "SpectrumLite.from_data"}

\* z times i^m
TimesI(z, m) ==
    CASE m % 4 = 0 -> z
      [] m % 4 = 1 -> <<-z[2], z[1]>>
      [] m % 4 = 2 -> <<-z[1], -z[2]>>
      [] m % 4 = 3 -> <<z[2], -z[1]>>
abs2(z) == z[1] * z[1] + z[2] * z[2]

RECURSIVE CSum(_)
CSum(zs) ==
    IF zs = <<>> THEN <<0, 0>>
    ELSE <<Head(zs)[1] + CSum(Tail(zs))[1], Head(zs)[2] + CSum(Tail(zs))[2]>>
RECURSIVE Sum(_)
Sum(xs) == IF xs = <<>> THEN 0 ELSE Head(xs) + Sum(Tail(xs))

\* A tone at bin k0 (0-based) of a transform of size N, of complex
\* amplitude amp: sample n0 is amp * exp(2 pi i k0 n0 / N).
Tone(N, k0, amp) ==
    [nn \in 1..N |-> TimesI(amp, k0 * (nn - 1) * (4 \div N))]

\* Records holding one tone, each block with an amplitude of its own.
ToneRecords ==
    UNION {{[b \in 1..nb |-> Tone(N, k0, amps[b])] :
               k0 \in 0..(N - 1), amps \in [1..nb -> Amplitudes]} :
           N \in FftSizes, nb \in 1..MaxBlocks}

\* data - data.mean(axis=1, keepdims=True), times nsamples
minus_mean(block) ==
    [nn \in 1..Len(block) |->
        <<Len(block) * block[nn][1] - CSum(block)[1],
          Len(block) * block[nn][2] - CSum(block)[2]>>]
\* rec.data as it is, times nsamples
as_is(block) ==
    [nn \in 1..Len(block) |->
        <<Len(block) * block[nn][1], Len(block) * block[nn][2]>>]

\* np.fft.fft(data, axis=1) of one block: bin k0 is the sum of
\* x[n0] * exp(-2 pi i k0 n0 / N), and exp(-2 pi i / 4) = i^3.
fft(block) ==
    [kk \in 1..Len(block) |->
        CSum([nn \in 1..Len(block) |->
                 TimesI(block[nn],
                        3 * (kk - 1) * (nn - 1) * (4 \div Len(block)))])]

\* np.fft.fftshift(X, axes=1): bin j0 takes the value of bin j0 - N // 2.
fftshift(X) ==
    [jj \in 1..Len(X) |->
        X[(((jj - 1) + Len(X) - (Len(X) \div 2)) % Len(X)) + 1]]

\* np.mean(block_psds, axis=0) with block_psds = abs(...) ** 2 / nsamples ** 2,
\* as numerators over nblocks * nsamples ** 2 * nsamples ** 2 (the second
\* nsamples ** 2 for the factor fft_in carries).
psd_of(blocks) ==
    [num |-> [jj \in 1..Len(blocks[1]) |->
                 Sum([b \in 1..Len(blocks) |->
                         abs2(fftshift(fft(blocks[b]))[jj])])],
     den |-> Len(blocks) * Len(blocks[1]) * Len(blocks[1])
                         * Len(blocks[1]) * Len(blocks[1])]

SpectrumInit ==
    /\ QueueIdle
    /\ CaptureIdle
    /\ RecordIdle
    /\ RunIdle
    /\ PeaksIdle
    /\ spc = "data"
    /\ impl \in Constructors
    /\ samples \in ToneRecords
    /\ fft_in = <<>>
    /\ spectrum = <<>>

spectrum_rest == <<queue_vars, capture_vars, record_vars, run_vars, peaks_vars>>

\* The array transformed: Spectrum.from_record takes rec.data, the two
\* from_data constructors subtract each block's mean first.
Data ==
    /\ spc = "data"
    /\ fft_in' = IF impl = "Spectrum.from_record"
                 THEN [b \in 1..Len(samples) |-> as_is(samples[b])]
                 ELSE [b \in 1..Len(samples) |-> minus_mean(samples[b])]
    /\ spc' = "psd"
    /\ UNCHANGED <<spectrum_rest, impl, samples, spectrum>>

\* block_psds and psd.
Psd ==
    /\ spc = "psd"
    /\ spectrum' = psd_of(fft_in)
    /\ spc' = "done"
    /\ UNCHANGED <<spectrum_rest, impl, samples, fft_in>>

SpectrumNext ==
    \/ Data
    \/ Psd

SpecSpectrum == SpectrumInit /\ [][SpectrumNext]_vars

\* ------------------------------------------------- history-derived notions
IsCal(p) == experiments[p].kind = "cal"
IsObs(p) == experiments[p].kind = "obs"

\* exp.run of position p has been called.
Started(p) == startAt[p] # None

\* exp.run of position p has returned its path.
Completed(p) == pathOf[p] # NoPath /\ (p < i \/ (p = i /\ pc = "append"))

\* exp.run of the current position has been left, by return or by raise.
RunLeft ==
    /\ i \in 1..n
    /\ Started(i)
    /\ pc \in {"append", "raised"}

\* The device captured for position p.
Captured(p) == \E k \in 1..Len(captureLog) : captureLog[k][1] = p

\* The last cadence-counted position before p whose run was called, 0 if none.
PrevCounted(p) ==
    LET S == {q \in 1..(p - 1) : IsObs(q) /\ Started(q)}
    IN  IF S = {} THEN 0 ELSE CHOOSE q \in S : \A r \in S : r <= q

\* Seconds asked of time.sleep in iteration p, 0 if it was not called.
SleepArg(p) ==
    IF \E k \in 1..Len(sleepLog) : sleepLog[k][1] = p
    THEN sleepLog[CHOOSE k \in 1..Len(sleepLog) : sleepLog[k][1] = p][2]
    ELSE 0

\* The operator's answer at position p, "-" if there was no prompt.
Answer(p) ==
    IF \E k \in 1..Len(promptLog) : promptLog[k][1] = p
    THEN promptLog[CHOOSE k \in 1..Len(promptLog) : promptLog[k][1] = p][2]
    ELSE "-"

\* The paths of the completed positions among 1..k, in queue order.
RECURSIVE CompletedPaths(_)
CompletedPaths(k) ==
    IF k = 0 THEN <<>>
    ELSE IF Completed(k) THEN Append(CompletedPaths(k - 1), pathOf[k])
         ELSE CompletedPaths(k - 1)

\* Exceptions that report a configuration error (the tests accept
\* ValueError).
ConfigurationErrors == {"ConfigurationError", "ValueError"}

\* ------------------------------------------------------------------ claims

\* C1: whenever CalExperiment.run, called with a tone source, has returned or
\* raised, the RF output of the tone source is off.
C1_RfOffOnEveryExit ==
    (RunLeft /\ IsCal(i) /\ synth # "None") => ~rf_on

\* C2: QueueRunner.run of queue.py with synth=None raises ValueError on
\* reaching a CalExperiment, before that step runs or captures; and with no
\* tone source no runner lets a calibration step reach the device capture.
C2_QueueRequiresSynth ==
    synth = "None" =>
        \A p \in 1..n :
            IsCal(p) =>
                /\ ~Captured(p)
                /\ (runner = "QueueRunner" /\ topAt[p] # None) =>
                       /\ pc = "raised"
                       /\ err = "ValueError"
                       /\ i = p
                       /\ ~Started(p)

C2_Witness ==
    /\ runner = "QueueRunner"
    /\ synth = "None"
    /\ pc = "raised"
    /\ err = "ValueError"
    /\ i = 2
    /\ IsObs(1) /\ IsCal(2) /\ Captured(1)

\* C3: CalExperiment.run called with synth=None fails with a
\* configuration error and has captured nothing.
C3_DirectRunConfigurationError ==
    (i \in 1..n /\ IsCal(i) /\ Started(i) /\ synth = "None"
       /\ pc # "set_signal") =>
        /\ pc = "raised"
        /\ err \in ConfigurationErrors
        /\ ~Captured(i)

\* C4: with cadence_sec set, the sleep asked for before a cadence-counted
\* position is 0 (no sleep) when no cadence-counted experiment ran before it,
\* and otherwise cadence_sec - elapsed when that is positive and no sleep
\* when elapsed >= cadence_sec, elapsed being the time since the start of
\* the previous cadence-counted experiment.
C4_ExpectedSleep(p) ==
    IF PrevCounted(p) = 0 THEN 0
    ELSE LET elapsed == topAt[p] - startAt[PrevCounted(p)]
         IN  IF elapsed >= cadence_sec THEN 0 ELSE cadence_sec - elapsed

C4_CadenceSleep ==
    Truthy(cadence_sec) =>
        \A p \in 1..n :
            (IsObs(p) /\ topAt[p] # None) => SleepArg(p) = C4_ExpectedSleep(p)

C4_Witness ==
    /\ n = 3
    /\ IsObs(1) /\ IsObs(2) /\ IsObs(3)
    /\ topAt[3] # None
    /\ SleepArg(1) = 0
    /\ SleepArg(2) > 0 /\ SleepArg(2) < cadence_sec
    /\ topAt[3] - startAt[2] >= cadence_sec
    /\ SleepArg(3) = 0

\* C5: the cadence clock is set to the current time in the step that calls a
\* cadence-counted experiment's run(), and no step of that run() nor its
\* completion changes it.
C5_ClockSetAtStart ==
    [][ /\ (pc = "start" /\ IsObs(i)) => (obs_start' = now /\ now' = now)
        /\ (pc \in {"set_signal", "capture", "rf_off", "make_path", "save",
                    "append"}) => obs_start' = obs_start ]_vars

C5_Witness ==
    /\ pc = "loop"
    /\ i > 1
    /\ IsObs(i - 1)
    /\ Completed(i - 1)
    /\ obs_start = startAt[i - 1]
    /\ now > obs_start

\* C6: with cadence_sec set, two cadence-counted experiments executed one
\* after the other start at least cadence_sec apart.
C6_MinimumInterval ==
    Truthy(cadence_sec) =>
        \A q \in 1..n :
            (IsObs(q) /\ Started(q) /\ PrevCounted(q) # 0) =>
                startAt[q] - startAt[PrevCounted(q)] >= cadence_sec

C6_Witness ==
    /\ Truthy(cadence_sec)
    /\ n = 3
    /\ IsObs(1) /\ IsCal(2) /\ IsObs(3)
    /\ Started(1) /\ Started(2) /\ Started(3)
    /\ SleepArg(3) > 0
    /\ Answer(3) = ""

\* C7: while the runner is at a CalExperiment it neither calls time.sleep
\* nor changes the cadence clock; an ObsExperiment sets the clock when it
\* starts and is held back when it comes before the cadence has elapsed.
C7_CalOutsideCadence ==
    [][ /\ (i \in 1..n /\ IsCal(i)) =>
               (obs_start' = obs_start /\ sleepLog' = sleepLog /\ pc' # "sleep")
        /\ (pc = "start" /\ IsObs(i)) => obs_start' = now
        /\ (pc = "loop" /\ i \in 1..n /\ IsObs(i) /\ Truthy(cadence_sec)
              /\ obs_start # None /\ now - obs_start < cadence_sec) =>
               pc' = "sleep" ]_vars

C7_Witness ==
    /\ Truthy(cadence_sec)
    /\ i \in 1..n
    /\ IsCal(i)
    /\ pc = "append"
    /\ obs_start # None
    /\ now - obs_start < cadence_sec
    /\ SleepArg(i) = 0

\* C8: after the operator answers quit at position p, the runner has
\* returned, nothing at position p or later was run, no later prompt was
\* issued, and the returned list is the paths of the experiments completed
\* before p.
C8_QuitStops ==
    \A k \in 1..Len(promptLog) :
        promptLog[k][2] = "q" =>
            LET p == promptLog[k][1] IN
                /\ pc = "done"
                /\ k = Len(promptLog)
                /\ \A q \in p..n : ~Started(q) /\ ~Captured(q)
                /\ \A q \in (p + 1)..n : topAt[q] = None
                /\ paths = CompletedPaths(p - 1)

C8_Witness ==
    /\ pc = "done"
    /\ n = 3
    /\ Answer(2) = "q"
    /\ Completed(1)
    /\ Len(paths) = 1

\* C9 (as claimed): a skip of a cadence-counted experiment resets the
\* cadence clock to the time of the skipped step and moves to the next
\* position, without running the experiment.
C9_SkipResetsClock ==
    [][ (pc = "prompt" /\ pc' = "loop" /\ IsObs(i)) =>
            (obs_start' = now' /\ i' = i + 1 /\ startAt'[i] = None) ]_vars

\* C9 (amended): a skip of a cadence-counted experiment leaves the cadence
\* clock unchanged and moves to the next position, and a skipped experiment
\* is never run.
C9_SkipKeepsClock ==
    [][ /\ (pc = "prompt" /\ pc' = "loop" /\ IsObs(i)) =>
               (obs_start' = obs_start /\ i' = i + 1)
        /\ \A p \in 1..n : Answer(p) = "s" => startAt'[p] = None ]_vars

C9_Witness ==
    /\ pc = "loop"
    /\ i > 1
    /\ IsObs(i - 1)
    /\ Answer(i - 1) = "s"
    /\ ~Started(i - 1)
    /\ obs_start # None
    /\ obs_start < now

\* C10: the returned list is the paths of the experiments that ran to
\* completion, one each, in queue order; skipped positions and positions at
\* or after a quit are not among them.
C10_ReturnedPaths ==
    pc = "done" =>
        /\ paths = CompletedPaths(n)
        /\ \A p \in 1..n :
               Completed(p) <=>
                   /\ Answer(p) \notin {"s", "q"}
                   /\ \A q \in 1..p : Answer(q) # "q"

C10_Witness ==
    /\ pc = "done"
    /\ n = 3
    /\ Answer(2) = "s"
    /\ Len(paths) = 2
    /\ paths[1] # paths[2]
    /\ paths = <<pathOf[1], pathOf[3]>>

\* C11: with confirm=False the operator is never asked, the experiments
\* are run in queue order, each after the one before it has completed, and
\* a run that returns has completed every queued experiment and returns
\* one path per experiment.
C11_NoConfirmRunsAll ==
    ~confirm =>
        /\ promptLog = <<>>
        /\ \A p \in 1..n : Started(p) => \A q \in 1..(p - 1) : Completed(q)
        /\ pc = "done" =>
               /\ Len(paths) = n
               /\ \A p \in 1..n : Completed(p) /\ paths[p] = pathOf[p]

C11_Witness ==
    /\ ~confirm
    /\ pc = "done"
    /\ n = 3
    /\ IsObs(1) /\ IsCal(2) /\ IsObs(3)
    /\ Len(paths) = 3

\* C12: when an experiment raises in a queue run in which earlier
\* experiments completed, the run hands the paths of the completed
\* experiments back to its caller.
C12_PartialPathsReturned ==
    (i \in 1..n /\ Started(i) /\ err # "none" /\ CompletedPaths(i - 1) # <<>>) =>
        /\ pc = "done"
        /\ paths = CompletedPaths(i - 1)

\* C13: a queue run called with an archive request is carried out: the
\* request is accepted and the run ends by returning its paths.
C13_ArchiveRequestAccepted ==
    archive # "None" => (err # "TypeError" /\ pc # "raised")

\* C15: the record saved by a CalExperiment carries the tone state queried
\* while the tone was applied: frequency and amplitude as queried, RF on.
C15_RecordCarriesAppliedTone ==
    \A f \in files :
        IsCal(f.pos) =>
            /\ f.siggen_freq = "queried"
            /\ f.siggen_amp = "queried"
            /\ f.siggen_rf_on = "True"

\* C16: the record saved by an ObsExperiment has no tone field set, with or
\* without a tone source handed to the run.
C16_ObsRecordHasNoTone ==
    \A f \in files :
        IsObs(f.pos) =>
            /\ f.siggen_freq = "None"
            /\ f.siggen_amp = "None"
            /\ f.siggen_rf_on = "None"

C16_Witness ==
    /\ synth # "None"
    /\ \E f \in files : IsObs(f.pos) /\ f.siggen_rf_on = "None"
    /\ \E f \in files : IsCal(f.pos) /\ f.siggen_rf_on # "None"

\* C14: a capture with nblocks = N >= 1 asks the device once, for N + 1
\* blocks, and returns the delivered blocks 2..N+1 in order: N blocks, none
\* of them the first delivered block.
C14_DiscardsFirstBlock ==
    cpc = "returned" =>
        /\ requests = <<nblocks + 1>>
        /\ Len(captured) = nblocks
        /\ \A k \in 1..nblocks : captured[k] = data[k + 1]
        /\ \A k \in 1..Len(captured) : captured[k].seq # 1

C14_Witness ==
    /\ cpc = "returned"
    /\ nblocks = MaxBlocks
    /\ data[1].content = "stale"
    /\ Len(captured) = MaxBlocks
    /\ captured[1].content = "sky"

\* C17: loading a file that stores only one or two of siggen_freq,
\* siggen_amp, siggen_rf_on is rejected, and a record that load returns has
\* the three fields all set or all None.
C17_PartialTripleRejected ==
    rpc = "done" =>
        /\ Cardinality(npz.keys \cap SiggenKeys) \in {1, 2} =>
               loaded.status = "ValueError"
        /\ loaded.status = "ok" =>
               \/ /\ loaded.record.siggen_freq = None
                  /\ loaded.record.siggen_amp = None
                  /\ loaded.record.siggen_rf_on = "None"
               \/ /\ loaded.record.siggen_freq # None
                  /\ loaded.record.siggen_amp # None
                  /\ loaded.record.siggen_rf_on # "None"

\* The required keys as the claim lists them.
C18_RequiredKeys ==
    {"data", "sample_rate", "center_freq", "gain", "direct", "unix_time",
     "jd", "lst", "alt", "az", "observer_lat", "observer_lon",
     "observer_alt", "nblocks", "nsamples"}

\* C18: loading a file that lacks any one of the required keys fails with
\* ValueError and returns no record.
C18_MissingKeyRejected ==
    (rpc = "done" /\ \E k \in C18_RequiredKeys : k \notin npz.keys) =>
        /\ loaded.status = "ValueError"
        /\ loaded.record = NoRecord

C18_Witness ==
    /\ rpc = "done"
    /\ C18_RequiredKeys \ npz.keys = {"gain"}
    /\ npz.data.shape = <<2, 2, 2>>
    /\ npz.data.dtype = "int8"
    /\ npz.nblocks = 2 /\ npz.nsamples = 2
    /\ loaded.status = "ValueError"

\* C19: a file whose array is not int8, or is not 3-dimensional with a
\* last dimension of 2, or whose first two dimensions differ from the
\* stored nblocks and nsamples, is rejected; a record that load returns has
\* data.shape = (nblocks, nsamples).
C19_InconsistentArrayRejected ==
    rpc = "done" =>
        /\ (\/ npz.data.dtype # "int8"
            \/ Len(npz.data.shape) # 3
            \/ npz.data.shape[Len(npz.data.shape)] # 2
            \/ npz.data.shape[1] # npz.nblocks
            \/ npz.data.shape[2] # npz.nsamples) =>
               loaded.status = "ValueError"
        /\ loaded.status = "ok" =>
               loaded.record.data.shape =
                   <<loaded.record.nblocks, loaded.record.nsamples>>

C19_Witness ==
    /\ rpc = "done"
    /\ C18_RequiredKeys \subseteq npz.keys
    /\ npz.data.dtype = "int8"
    /\ npz.data.shape = <<1, 2, 2>>
    /\ npz.nblocks = 2 /\ npz.nsamples = 2
    /\ loaded.status = "ValueError"

\* A valid record as the claim has it: int8-valued I/Q samples and the
\* tone triple fully present or fully absent.
C20_Valid(r) ==
    /\ \A k \in 1..Len(r.data.iq) :
           r.data.iq[k][1] \in -128..127 /\ r.data.iq[k][2] \in -128..127
    /\ \/ r.siggen_freq = None /\ r.siggen_amp = None /\ r.siggen_rf_on = "None"
       \/ r.siggen_freq # None /\ r.siggen_amp # None /\ r.siggen_rf_on # "None"

\* C20: for a valid record, save followed by load returns a record with
\* the same float fields, direct, nblocks, nsamples and tone triple, and
\* with the same sample array.
C20_SaveLoadRoundTrip ==
    (rpc = "done" /\ rec # NoRecord /\ C20_Valid(rec)) =>
        /\ loaded.status = "ok"
        /\ \A k \in FloatKeys : loaded.record.floats[k] = rec.floats[k]
        /\ loaded.record.direct = rec.direct
        /\ loaded.record.nblocks = rec.nblocks
        /\ loaded.record.nsamples = rec.nsamples
        /\ loaded.record.siggen_freq = rec.siggen_freq
        /\ loaded.record.siggen_amp = rec.siggen_amp
        /\ loaded.record.siggen_rf_on = rec.siggen_rf_on
        /\ loaded.record.data = rec.data

C20_Witness ==
    /\ rpc = "done"
    /\ rec # NoRecord
    /\ C20_Valid(rec)
    /\ rec.data.shape = <<2, 2>>
    /\ rec.data.iq[1] = <<-128, 127>>
    /\ rec.data.iq[2] = <<0, -2>>
    /\ rec.siggen_rf_on = "False"
    /\ rec.direct
    /\ loaded.record = rec

\* C27: in a queue run (which starts with the RF output off) the RF output
\* is off during the capture of every ObsExperiment; every CalExperiment
\* captures with RF on, and RF is off whenever the runner is between
\* experiments.
C27_RfOffDuringObs ==
    /\ \A k \in 1..Len(captureLog) :
           captureLog[k][2] = IsCal(captureLog[k][1])
    /\ (pc = "capture" /\ IsObs(i)) => ~rf_on
    /\ pc \in {"loop", "sleep", "prompt", "start"} => ~rf_on

C27_Witness ==
    /\ confirm
    /\ n = 3
    /\ IsCal(1) /\ IsCal(2) /\ IsObs(3)
    /\ Answer(2) = "s"
    /\ captureLog = <<<<1, TRUE>>, <<3, FALSE>>>>

\* C28: the paths returned by one queue run are pairwise distinct, and no
\* experiment's file replaces the file of another experiment of the run:
\* every completed experiment has a file of its own.
C28_PathsDistinct ==
    /\ \A p, q \in 1..Len(paths) : p # q => paths[p] # paths[q]
    /\ \A p \in 1..n : Completed(p) => \E f \in files : f.pos = p

\* C30: with cadence_sec None or 0 the runner never calls time.sleep.
C30_NoCadenceNoSleep ==
    cadence_sec \in {None, 0} => (sleepLog = <<>> /\ pc # "sleep")

C30_Witness ==
    /\ cadence_sec = 0
    /\ confirm
    /\ n = 3
    /\ IsObs(1) /\ IsObs(2) /\ IsObs(3)
    /\ Completed(1) /\ Answer(2) = "s" /\ Completed(3)
    /\ startAt[3] = startAt[1]
    /\ pc = "done"
    /\ sleepLog = <<>>

\* C24: when an experiment's run() fails in the capture or in build_record,
\* the run has written no file for that experiment, has made no path known
\* to the caller, and the failure has left the runner.
C24_NoFileOnFailure ==
    (i \in 1..n /\ Started(i) /\ err \in {"RuntimeError", "ValueError"}) =>
        /\ pc = "raised"
        /\ \A f \in files : f.pos # i
        /\ Len(paths) < i
        /\ \A f \in files : \E p \in 1..(i - 1) : Completed(p) /\ f.path = pathOf[p]

C24_Witness ==
    /\ n = 3
    /\ i = 2
    /\ Started(2)
    /\ err = "ValueError"
    /\ pathOf[2] # NoPath
    /\ \E f \in files : f.pos = 1
    /\ Cardinality(files) = 1

\* C29: a file written by saving a record stores siggen_freq, siggen_amp
\* and siggen_rf_on all together or not at all, also when the record has
\* only some of the three fields set.
C29_TripleWrittenWhole ==
    (rec # NoRecord /\ npz # NoFile) =>
        npz.keys \cap SiggenKeys \in {{}, SiggenKeys}

\* C21: building a record from an array that, in I/Q mode, is not
\* 3-dimensional with a last dimension of 2 fails with ValueError and
\* yields no record.
C21_MalformedShapeRejected ==
    (xpc = "built" /\ ~want.direct
       /\ ~(Len(raw_shape) = 3 /\ raw_shape[Len(raw_shape)] = 2)) =>
        built.status = "ValueError"

\* C22: when run() asks the device for samples it has, whatever state the
\* device was in, just told it the sampling mode, the center frequency (0 in
\* direct mode, else the experiment's), the sample rate and the gain, in
\* this order, all of this experiment.
C22_ConfiguredBeforeCapture ==
    (\E k \in 1..Len(cmds) : cmds[k][1] = "capture_data") =>
        cmds = << <<"set_direct_sampling", IF want.direct THEN "q" ELSE "0">>,
                  <<"set_center_freq",
                    IF want.direct THEN 0 ELSE want.center_freq>>,
                  <<"set_sample_rate", want.sample_rate>>,
                  <<"set_gain", want.gain>>,
                  <<"capture_data", "nblocks + 1">> >>

C22_Witness ==
    /\ Len(cmds) = 5
    /\ want.direct
    /\ want.center_freq = 1421
    /\ sdr.direct_sampling = "q"
    /\ sdr.center_freq = 0
    /\ sdr.sample_rate = want.sample_rate
    /\ sdr.gain = want.gain
    /\ cmds[2] = <<"set_center_freq", 0>>

\* C23: the sample_rate, center_freq and gain of a record are the values
\* the device reports when the record is built, also when they differ from
\* the values the experiment asked for.
C23_RecordHoldsReportedValues ==
    (xpc = "built" /\ built.status = "ok") =>
        /\ built.sample_rate = sdr.sample_rate
        /\ built.center_freq = sdr.center_freq
        /\ built.gain = sdr.gain

C23_Witness ==
    /\ xpc = "built"
    /\ built.status = "ok"
    /\ built.builder = "build_record"
    /\ ~want.direct
    /\ sdr.sample_rate # want.sample_rate
    /\ sdr.center_freq # want.center_freq
    /\ sdr.gain # want.gain
    /\ built.sample_rate = sdr.sample_rate

\* C25: every bin find_peaks reports is a local maximum of the PSD (not an
\* end bin, no neighbour higher) at or above the threshold, any two
\* reported bins are at least min_distance apart, and nothing is reported
\* when no bin is at or above the threshold.
C25_PeaksAboveThresholdApart ==
    fpc = "done" =>
        /\ \A m \in peaks :
               /\ m \in 2..(Len(psd) - 1)
               /\ psd[m - 1] <= psd[m] /\ psd[m + 1] <= psd[m]
               /\ \E j \in 1..Len(psd) : psd[j] < psd[m]
               /\ params.threshold # nan
               /\ 2 * psd[m] >= params.threshold
        /\ \A m, q \in peaks : m < q => q - m >= params.min_distance
        /\ (\A j \in 1..Len(psd) :
               params.threshold = nan \/ 2 * psd[j] < params.threshold) =>
               peaks = {}

C25_Witness ==
    /\ fpc = "done"
    /\ psd = <<1, 2, 1, 2, 1>>
    /\ params.min_distance = 3
    /\ params.threshold = 3
    /\ peaks = {4}

\* C26: for a record holding a tone at one bin, total_power, the sum of
\* the psd over all bins, equals the mean power per sample of the raw
\* samples: sum(num) / den = sum(|x|^2) / (nblocks * nsamples).
C26_TotalPowerIsSamplePower ==
    spc = "done" =>
        Sum(spectrum.num) * (Len(samples) * Len(samples[1])) =
            spectrum.den * Sum([b \in 1..Len(samples) |->
                                   Sum([nn \in 1..Len(samples[1]) |->
                                           abs2(samples[b][nn])])])

====
